---- MODULE Spec2Model ----
(***************************************************************************)
(* Multi-agent contract analysis: three phase-1 agents (structure, legal,  *)
(* negotiation) run concurrently under asyncio.gather on the same contract *)
(* text, then ManagerAgent.analyze consolidates their results.             *)
(*                                                                         *)
(* Text is modelled as a sequence of tokens: a token is one character of   *)
(* the document or of a generated text, or one fixed literal of the code   *)
(* (a prompt header, a placeholder, the failure prefix).  Concatenation    *)
(* of an f-string is \o.                                                   *)
(***************************************************************************)
EXTENDS Integers, Sequences, FiniteSets, TLC

VARIABLES
    frontend,        \* "bot" (run_agents), "app" (run_parallel_analysis + run_manager_analysis), "direct" (ManagerAgent.analyze called on its own)
    contract_text,   \* the extracted document text handed to the pipeline
    run,             \* number of the current run of the pipeline on contract_text
    opc,             \* position of the orchestrating coroutine
    tpc,             \* per phase-1 task: "pending", "awaiting" (suspended in agent.arun), "done" (returned) or "raised"
    tprompt,         \* per phase-1 task: the prompt it sent to the generation service
    treply,          \* per phase-1 task: what its arun call delivered
    tresult,         \* per phase-1 task: the dict analyze returned
    agent_results,   \* the aggregated mapping key -> result dict
    mpc,             \* ManagerAgent.analyze: "idle", "awaiting", "done" (returned) or "raised"
    mprompt,         \* the prompt ManagerAgent.analyze sent
    mreply,          \* what the manager's arun call delivered
    manager_result,  \* the dict ManagerAgent.analyze returned
    results,         \* what the orchestration hands to the presentation layer
    stub,            \* TRUE when the generation service is a deterministic stub
    stubMemo,        \* the stub's answers so far: <<instructions, prompt>> -> outcome
    previous,        \* the results of the previous run on the same document
    ncalls,          \* per agent: the arun calls it has made in this run
    fpc,             \* position of the front-end's handler; "none" when the pipeline runs on its own
    upload,          \* the uploaded file: its declared kind, whether it parses, the text in it
    status_msg,      \* the bot's status message: "none", "shown" or "deleted"
    blocks,          \* the text blocks the front-end has shown to the user, in order
    notice,          \* the failure message shown to the user, "none" if none
    fault,           \* the step of the handler that raised, "none" if none
    escaped          \* TRUE when an exception has left the handler

vars == <<frontend, contract_text, run, opc, tpc, tprompt, treply, tresult, agent_results,
          mpc, mprompt, mreply, manager_result, results, stub, stubMemo, previous,
          ncalls, fpc, upload, status_msg, blocks, notice, fault, escaped>>

\* The state of the front-end's handler.
fvars == <<fpc, upload, status_msg, blocks, notice, fault, escaped>>

(***************************************************************************)
(* Bounds of the model.                                                    *)
(***************************************************************************)
MaxShort == 1        \* documents of length 0..MaxShort ...
MaxOver  == 1        \* ... and of length CAP-1 .. CAP+MaxOver
NumPatterns == 1     \* character patterns each document length is filled with
MaxRuns == 2         \* runs of the pipeline on one document (deterministic stub only)
LineLen == 1000      \* a long reply has a line break at every LineLen-th character

(***************************************************************************)
(* Program constants.                                                      *)
(***************************************************************************)
CAP == 8000          \* contract_text[:8000]
MAX_MESSAGE_LENGTH == 4096     \* Telegram message limit
TRUNCATE_AT == 3000            \* format_agent_result: len(content) > 3000

None == "None"       \* Python's None
NoDict == [x \in {} |-> None]   \* the empty dict {}

Keys == {"structure", "legal", "negotiation"}

\* The "agent" field each agent writes into its result.
AgentName(k) ==
    CASE k = "structure"   -> "Contract Structure Agent"
      [] k = "legal"       -> "Legal Framework Agent"
      [] k = "negotiation" -> "Negotiation Agent"
      [] k = "manager"     -> "Manager Agent"

\* The "analysis_type" field each agent writes into its result.
AnalysisType(k) ==
    CASE k = "structure"   -> "structural"
      [] k = "legal"       -> "legal"
      [] k = "negotiation" -> "negotiation"
      [] k = "manager"     -> "consolidated"

\* The INSTRUCTIONS each agent's Agent object is constructed with.
INSTRUCTIONS(k) ==
    CASE k = "structure"   -> "You are a Contract Structure Analysis Expert."
      [] k = "legal"       -> "You are a Legal Analysis Expert."
      [] k = "negotiation" -> "You are a Contract Negotiation Expert."
      [] k = "manager"     -> "You are a Contract Analysis Manager."

\* The literal text of the prompt f-string before and after the excerpt.
PromptHead(k) ==
    CASE k = "structure"   -> "Analyze this contract's structure briefly:\n\n"
      [] k = "legal"       -> "Analyze this contract for legal risks briefly:\n\n"
      [] k = "negotiation" -> "Analyze this contract for negotiation opportunities briefly:\n\n"

PromptTail(k) ==
    CASE k = "structure"   -> "\n\nProvide a short, readable summary of the document structure."
      [] k = "legal"       -> "\n\nProvide a short, readable summary of legal concerns."
      [] k = "negotiation" -> "\n\nProvide a short, readable summary of negotiation points."

Min(a, b) == IF a <= b THEN a ELSE b

\* Python's s[:n] for n >= 0.
Slice(s, n) == SubSeq(s, 1, Min(Len(s), n))

\* Mutant: the slice is forgotten and the whole text is embedded.
ExcerptUncapped(text) == text

\* The document excerpt a phase-1 agent embeds: contract_text[:8000].
Excerpt(text) == Slice(text, CAP)

\* Mutant: the agent object outlives the run and puts what it answered in the
\* previous run in front of the excerpt.
WorkerPromptWithHistory(k, text) ==
    <<PromptHead(k)>>
        \o (IF run > 1 THEN previous.agents[k].content ELSE <<>>)
        \o Excerpt(text) \o <<PromptTail(k)>>

\* The prompt a phase-1 agent builds.
WorkerPrompt(k, text) == <<PromptHead(k)>> \o Excerpt(text) \o <<PromptTail(k)>>

(***************************************************************************)
(* The external generation service.                                        *)
(***************************************************************************)
\* The response objects arun returns: (content, run_id).
Responses ==
    {[kind |-> "ok", content |-> <<>>, run_id |-> None],
     [kind |-> "ok", content |-> <<"stub-ok">>, run_id |-> "run-1"]}

ErrMsgs  == {<<"TimeoutError">>}           \* str(e) of an exception arun raises

\* What one `await self.agent.arun(prompt)` can deliver to the try block:
\* a response object, an exception, or an object without a content attribute.
Outcomes ==
    Responses
        \cup [kind : {"raise"}, msg : ErrMsgs]
        \cup {[kind |-> "malformed"]}

\* str(e) of the AttributeError that reading response.content raises.
ATTR_ERROR == <<"'NoneType' object has no attribute 'content'">>

WARNING == "(warning sign)"                \* the U+26A0 U+FE0F marker

\* A response longer than one Telegram message, in lines of LineLen characters.
VerboseResponse ==
    [kind |-> "ok",
     content |-> SubSeq([i \in 1..(MAX_MESSAGE_LENGTH + MaxOver) |->
                            IF i % LineLen = 0 THEN "\n" ELSE "a"],
                        1, MAX_MESSAGE_LENGTH + MaxOver),
     run_id |-> "run-1"]

\* The long response is drawn where its length decides something: for the
\* report the bot sends as Telegram messages.
VerboseReplies(instructions) ==
    IF frontend = "bot" /\ fpc # "none" /\ instructions = INSTRUCTIONS("manager")
    THEN {VerboseResponse}
    ELSE {}

\* The outcomes the service can give for this call: a deterministic stub
\* answers a request it has seen before the way it answered it then.
ServiceOutcomes(instructions, prompt) ==
    IF stub /\ <<instructions, prompt>> \in DOMAIN stubMemo
    THEN {stubMemo[<<instructions, prompt>>]}
    ELSE Outcomes \cup VerboseReplies(instructions)

Remember(instructions, prompt, o) ==
    IF stub THEN (<<instructions, prompt>> :> o) @@ stubMemo ELSE stubMemo

(***************************************************************************)
(* The agents' try/except around the call.                                 *)
(***************************************************************************)
\* Mutant: the except clause names the service's errors only, so the
\* AttributeError of a malformed response leaves analyze.
CaughtServiceErrorsOnly(k, o) == o.kind = "raise"

\* Mutant: ManagerAgent.analyze awaits its call outside any try block.
CaughtByPhase1Only(k, o) == k # "manager" /\ o.kind \in {"raise", "malformed"}

\* `except Exception`: every exception the call or the reading of the response
\* raises is caught.
Caught(k, o) == o.kind \in {"raise", "malformed"}

\* analyze ends by a return statement (and not by an exception leaving it).
Returns(k, o) == o.kind = "ok" \/ Caught(k, o)

\* The message of the exception the except clause catches.
ExcMsg(o) == IF o.kind = "raise" THEN o.msg ELSE ATTR_ERROR

\* f"(warning sign) Analysis failed: {str(e)}" / "... Consolidation failed: ..."
FailureNotice(k, m) ==
    <<WARNING, IF k = "manager" THEN " Consolidation failed: " ELSE " Analysis failed: ">> \o m

\* str(response.run_id) if response.run_id else None
RunIdField(r) == IF r \in {None, ""} THEN None ELSE r

\* Mutant: the except clause builds its dict without the "error" key.
AgentResultNoErrorKey(k, o) ==
    IF o.kind = "ok"
    THEN [agent |-> AgentName(k), analysis_type |-> AnalysisType(k),
          content |-> o.content, run_id |-> RunIdField(o.run_id)]
    ELSE [agent |-> AgentName(k), analysis_type |-> AnalysisType(k),
          content |-> FailureNotice(k, ExcMsg(o))]

\* Mutant: the failure notice is a fixed text that leaves the message out.
AgentResultGenericNotice(k, o) ==
    IF o.kind = "ok"
    THEN [agent |-> AgentName(k), analysis_type |-> AnalysisType(k),
          content |-> o.content, run_id |-> RunIdField(o.run_id)]
    ELSE [agent |-> AgentName(k), analysis_type |-> AnalysisType(k),
          content |-> FailureNotice(k, <<>>), error |-> ExcMsg(o)]

\* Mutant: the success dict carries an "error" key too, set to None.
AgentResultErrorNone(k, o) ==
    IF o.kind = "ok"
    THEN [agent |-> AgentName(k), analysis_type |-> AnalysisType(k),
          content |-> o.content, run_id |-> RunIdField(o.run_id), error |-> None]
    ELSE [agent |-> AgentName(k), analysis_type |-> AnalysisType(k),
          content |-> FailureNotice(k, ExcMsg(o)), error |-> ExcMsg(o)]

\* The dict analyze returns, for agent k and outcome o of its call.
AgentResult(k, o) ==
    IF o.kind = "ok"
    THEN [agent |-> AgentName(k), analysis_type |-> AnalysisType(k),
          content |-> o.content, run_id |-> RunIdField(o.run_id)]
    ELSE [agent |-> AgentName(k), analysis_type |-> AnalysisType(k),
          content |-> FailureNotice(k, ExcMsg(o)), error |-> ExcMsg(o)]

(***************************************************************************)
(* ManagerAgent.analyze: reading the aggregated results, the prompt.       *)
(***************************************************************************)
Placeholder(k) ==
    CASE k = "structure"   -> "No structural analysis available"
      [] k = "legal"       -> "No legal analysis available"
      [] k = "negotiation" -> "No negotiation analysis available"

\* d.get(key, default) of a dict d
DictGet(d, key, default) == IF key \in DOMAIN d THEN d[key] ELSE default

\* Mutant: the default of the inner get is the empty string.
SectionTextEmptyDefault(agg, k) ==
    DictGet(DictGet(agg, k, NoDict), "content", <<>>)

\* Mutant: `.get("content") or placeholder`, which replaces an empty content too.
SectionTextOrPlaceholder(agg, k) ==
    IF DictGet(DictGet(agg, k, NoDict), "content", <<>>) = <<>>
    THEN <<Placeholder(k)>>
    ELSE DictGet(DictGet(agg, k, NoDict), "content", <<>>)

\* Mutant: the manager cuts each content at the cap of phase 1.
SectionTextCapped(agg, k) ==
    Slice(DictGet(DictGet(agg, k, NoDict), "content", <<Placeholder(k)>>), CAP)

\* agent_results.get(k, {}).get("content", "No ... analysis available")
SectionText(agg, k) ==
    DictGet(DictGet(agg, k, NoDict), "content", <<Placeholder(k)>>)

MHead        == "Consolidate these agent findings into a brief executive summary:\n\n**Structure Analysis:**\n"
MLegal       == "\n\n**Legal Analysis:**\n"
MNegotiation == "\n\n**Negotiation Analysis:**\n"
MTail        == "\n\nProvide a short, actionable summary with your recommendation."

ManagerPrompt(agg) ==
    <<MHead>> \o SectionText(agg, "structure")
        \o <<MLegal>> \o SectionText(agg, "legal")
        \o <<MNegotiation>> \o SectionText(agg, "negotiation")
        \o <<MTail>>

(***************************************************************************)
(* Inputs.                                                                 *)
(***************************************************************************)
Alphabet == <<"a", "b", "c">>

\* A document of n characters; the pattern p makes neighbouring positions differ.
Doc(n, p) == [i \in 1..n |-> Alphabet[((i * (p + 1)) % 3) + 1]]

DocLens == (0..MaxShort) \cup ((CAP - 1)..(CAP + MaxOver))

Docs == {Doc(n, p) : n \in DocLens, p \in 0..(NumPatterns - 1)}

\* The documents of the two-run specification: the short ones.
DetDocs == {Doc(n, 0) : n \in 0..MaxShort}

\* A response whose text is longer than the cap of phase 1.
LongResponse ==
    [kind |-> "ok", content |-> SubSeq(Doc(CAP + MaxOver, 0), 1, CAP + MaxOver), run_id |-> None]

\* An entry of the aggregated mapping as a caller of ManagerAgent.analyze can
\* pass it: any result an agent returns, or a dict without a content field.
EntryInputs(k) ==
    {AgentResult(k, o) : o \in Outcomes}
        \cup {[agent |-> AgentName(k), analysis_type |-> AnalysisType(k)]}
        \cup (IF k = "legal" THEN {AgentResult(k, LongResponse)} ELSE {})

\* The mappings ManagerAgent.analyze is called with: any subset of the keys.
AggInputs ==
    UNION {{f \in [S -> UNION {EntryInputs(k) : k \in Keys}] :
                \A k \in S : f[k] \in EntryInputs(k)} : S \in SUBSET Keys}

NoTask == [k \in Keys |-> "none"]

Agents == Keys \cup {"manager"}

NoCalls == [a \in Agents |-> 0]

(***************************************************************************)
(* asyncio.gather over the three analyze coroutines.                       *)
(***************************************************************************)
\* Mutant: gather as a race, complete with the first task that is done.
GatherReadyFirstCompleted == \E k \in Keys : tpc[k] = "done"

\* gather completes when every awaited task is done.
GatherReady == \A k \in Keys : tpc[k] = "done"

\* gather (return_exceptions=False) passes the first exception of a task on
\* to its awaiter at once.
GatherRaises == \E k \in Keys : tpc[k] = "raised"

\* Mutant: the results come in the order the calls end when a failing call
\* ends last (a timeout): the successes first, then the failures.
GatherResultsAsCompleted ==
    SelectSeq(<<tresult["structure"], tresult["legal"], tresult["negotiation"]>>,
              LAMBDA r : "error" \notin DOMAIN r)
        \o SelectSeq(<<tresult["structure"], tresult["legal"], tresult["negotiation"]>>,
                     LAMBDA r : "error" \in DOMAIN r)

\* gather's result list, in the order of its arguments.
GatherResults == <<tresult["structure"], tresult["legal"], tresult["negotiation"]>>

\* structure_result, legal_result, negotiation_result = ...; the dict built from them.
Assemble(r) == [structure |-> r[1], legal |-> r[2], negotiation |-> r[3]]

(***************************************************************************)
(* Initial states.                                                         *)
(***************************************************************************)
InitCommon ==
    /\ run = 1
    /\ tpc = NoTask
    /\ tprompt = [k \in Keys |-> <<>>]
    /\ treply = [k \in Keys |-> NoDict]
    /\ tresult = [k \in Keys |-> NoDict]
    /\ mpc = "idle"
    /\ mprompt = <<>>
    /\ mreply = NoDict
    /\ manager_result = NoDict
    /\ results = NoDict
    /\ stubMemo = NoDict
    /\ previous = NoDict
    /\ ncalls = NoCalls

\* The pipeline is run on its own, without a front-end's handler around it.
NoFront ==
    /\ fpc = "none"
    /\ upload = NoDict
    /\ status_msg = "none"
    /\ blocks = <<>>
    /\ notice = "none"
    /\ fault = "none"
    /\ escaped = FALSE

\* A front-end has extracted contract_text and is about to run the pipeline.
Init ==
    /\ InitCommon
    /\ NoFront
    /\ frontend \in {"bot", "app"}
    /\ contract_text \in Docs
    /\ opc = "start"
    /\ agent_results = NoDict
    /\ stub = FALSE

(***************************************************************************)
(* Actions.                                                                *)
(***************************************************************************)
\* run_agents / run_parallel_analysis: the agents are constructed and gather
\* wraps the three analyze coroutines in tasks.
Launch ==
    /\ opc = "start"
    /\ opc' = "gather"
    /\ tpc' = [k \in Keys |-> "pending"]
    /\ UNCHANGED <<frontend, contract_text, run, tprompt, treply, tresult, agent_results,
                   mpc, mprompt, mreply, manager_result, results, stub, stubMemo, previous>>
    /\ UNCHANGED ncalls
    /\ UNCHANGED fvars

\* A phase-1 analyze runs up to its await: it builds the prompt and calls arun.
AnalyzeStart(k) ==
    /\ tpc[k] = "pending"
    /\ tprompt' = [tprompt EXCEPT ![k] = WorkerPrompt(k, contract_text)]
    /\ tpc' = [tpc EXCEPT ![k] = "awaiting"]
    /\ UNCHANGED <<frontend, contract_text, run, opc, treply, tresult, agent_results,
                   mpc, mprompt, mreply, manager_result, results, stub, stubMemo, previous>>
    /\ ncalls' = [ncalls EXCEPT ![k] = @ + 1]
    /\ UNCHANGED fvars

\* Mutant: after a failed call analyze tries once more instead of returning.
AnalyzeFinishRetrying(k) ==
    /\ tpc[k] = "awaiting"
    /\ \E o \in ServiceOutcomes(INSTRUCTIONS(k), tprompt[k]) :
          /\ treply' = [treply EXCEPT ![k] = o]
          /\ stubMemo' = Remember(INSTRUCTIONS(k), tprompt[k], o)
          /\ IF o.kind # "ok" /\ ncalls[k] < 2
             THEN /\ tresult' = tresult
                  /\ tpc' = [tpc EXCEPT ![k] = "pending"]
             ELSE /\ tresult' = [tresult EXCEPT ![k] = AgentResult(k, o)]
                  /\ tpc' = [tpc EXCEPT ![k] = "done"]
    /\ UNCHANGED <<frontend, contract_text, run, opc, tprompt, agent_results,
                   mpc, mprompt, mreply, manager_result, results, stub, previous>>
    /\ UNCHANGED ncalls
    /\ UNCHANGED fvars

\* The call of a phase-1 analyze completes; analyze resumes in its try block
\* and returns its dict, or ends with the exception no clause caught.
AnalyzeFinish(k) ==
    /\ tpc[k] = "awaiting"
    /\ \E o \in ServiceOutcomes(INSTRUCTIONS(k), tprompt[k]) :
          /\ treply' = [treply EXCEPT ![k] = o]
          /\ stubMemo' = Remember(INSTRUCTIONS(k), tprompt[k], o)
          /\ IF Returns(k, o)
             THEN /\ tresult' = [tresult EXCEPT ![k] = AgentResult(k, o)]
                  /\ tpc' = [tpc EXCEPT ![k] = "done"]
             ELSE /\ tresult' = tresult
                  /\ tpc' = [tpc EXCEPT ![k] = "raised"]
    /\ UNCHANGED <<frontend, contract_text, run, opc, tprompt, agent_results,
                   mpc, mprompt, mreply, manager_result, results, stub, previous>>
    /\ UNCHANGED ncalls
    /\ UNCHANGED fvars

\* gather returns; the three results are bound and the dict is built.  In the
\* web app this is where run_parallel_analysis returns to main.  An exception
\* of a task leaves the orchestration instead.
GatherDone ==
    /\ opc = "gather"
    /\ GatherReady \/ GatherRaises
    /\ IF GatherRaises
       THEN /\ opc' = "raised"
            /\ agent_results' = agent_results
       ELSE /\ agent_results' = Assemble(GatherResults)
            /\ opc' = IF frontend = "app" THEN "phase1_returned" ELSE "phase2"
    /\ UNCHANGED <<frontend, contract_text, run, tpc, tprompt, treply, tresult,
                   mpc, mprompt, mreply, manager_result, results, stub, stubMemo, previous>>
    /\ UNCHANGED ncalls
    /\ UNCHANGED fvars

\* Web app: main calls asyncio.run(run_manager_analysis(agent_results)).
AppPhase2 ==
    /\ opc = "phase1_returned"
    /\ opc' = "phase2"
    /\ UNCHANGED <<frontend, contract_text, run, tpc, tprompt, treply, tresult, agent_results,
                   mpc, mprompt, mreply, manager_result, results, stub, stubMemo, previous>>
    /\ UNCHANGED ncalls
    /\ UNCHANGED fvars

\* Mutant: the manager takes each content out of its entry (pop for get).
ManagerStartConsuming ==
    /\ opc = "phase2"
    /\ mpc = "idle"
    /\ mprompt' = ManagerPrompt(agent_results)
    /\ mpc' = "awaiting"
    /\ agent_results' =
          [k \in DOMAIN agent_results |->
              [f \in DOMAIN agent_results[k] \ {"content"} |-> agent_results[k][f]]]
    /\ UNCHANGED <<frontend, contract_text, run, opc, tpc, tprompt, treply, tresult,
                   mreply, manager_result, results, stub, stubMemo, previous>>
    /\ ncalls' = [ncalls EXCEPT !["manager"] = @ + 1]
    /\ UNCHANGED fvars

\* ManagerAgent.analyze runs up to its await: it reads the three contents,
\* builds the prompt and calls arun.
ManagerStart ==
    /\ opc = "phase2"
    /\ mpc = "idle"
    /\ mprompt' = ManagerPrompt(agent_results)
    /\ mpc' = "awaiting"
    /\ UNCHANGED <<frontend, contract_text, run, opc, tpc, tprompt, treply, tresult, agent_results,
                   mreply, manager_result, results, stub, stubMemo, previous>>
    /\ ncalls' = [ncalls EXCEPT !["manager"] = @ + 1]
    /\ UNCHANGED fvars

\* The manager's call completes; analyze returns its dict, or ends with the
\* exception no clause caught.
ManagerFinish ==
    /\ mpc = "awaiting"
    /\ \E o \in ServiceOutcomes(INSTRUCTIONS("manager"), mprompt) :
          /\ mreply' = o
          /\ stubMemo' = Remember(INSTRUCTIONS("manager"), mprompt, o)
          /\ IF Returns("manager", o)
             THEN /\ manager_result' = AgentResult("manager", o)
                  /\ mpc' = "done"
             ELSE /\ manager_result' = manager_result
                  /\ mpc' = "raised"
    /\ UNCHANGED <<frontend, contract_text, run, opc, tpc, tprompt, treply, tresult, agent_results,
                   mprompt, results, stub, previous>>
    /\ UNCHANGED ncalls
    /\ UNCHANGED fvars

\* The orchestration returns the aggregated results and the consolidated
\* report; an exception of the manager leaves it instead.
Return ==
    /\ opc = "phase2"
    /\ mpc \in {"done", "raised"}
    /\ IF mpc = "done"
       THEN /\ results' = [agents |-> agent_results, consolidated |-> manager_result]
            /\ opc' = "returned"
       ELSE /\ results' = results
            /\ opc' = "raised"
    /\ UNCHANGED <<frontend, contract_text, run, tpc, tprompt, treply, tresult, agent_results,
                   mpc, mprompt, mreply, manager_result, stub, stubMemo, previous>>
    /\ UNCHANGED ncalls
    /\ UNCHANGED fvars

\* The caller runs the pipeline again on the same document: a new call, with
\* new agent objects and new locals.
Rerun ==
    /\ opc = "returned"
    /\ run < MaxRuns
    /\ frontend \in {"bot", "app"}
    /\ previous' = results
    /\ run' = run + 1
    /\ opc' = "start"
    /\ tpc' = NoTask
    /\ tprompt' = [k \in Keys |-> <<>>]
    /\ treply' = [k \in Keys |-> NoDict]
    /\ tresult' = [k \in Keys |-> NoDict]
    /\ agent_results' = NoDict
    /\ mpc' = "idle"
    /\ mprompt' = <<>>
    /\ mreply' = NoDict
    /\ manager_result' = NoDict
    /\ results' = NoDict
    /\ UNCHANGED <<frontend, contract_text, stub, stubMemo>>
    /\ ncalls' = NoCalls
    /\ UNCHANGED fvars

Next ==
    \/ Launch
    \/ \E k \in Keys : AnalyzeStart(k)
    \/ \E k \in Keys : AnalyzeFinish(k)
    \/ GatherDone
    \/ AppPhase2
    \/ ManagerStart
    \/ ManagerFinish
    \/ Return

Spec == Init /\ [][Next]_vars

(***************************************************************************)
(* Two runs on one document against a deterministic stub service.          *)
(***************************************************************************)
InitDet ==
    /\ InitCommon
    /\ NoFront
    /\ frontend \in {"bot", "app"}
    /\ contract_text \in DetDocs
    /\ opc = "start"
    /\ agent_results = NoDict
    /\ stub = TRUE

NextDet == Next \/ Rerun

SpecDet == InitDet /\ [][NextDet]_vars

(***************************************************************************)
(* ManagerAgent.analyze called on any aggregated mapping.                  *)
(***************************************************************************)
InitManager ==
    /\ InitCommon
    /\ NoFront
    /\ frontend = "direct"
    /\ contract_text = <<>>
    /\ opc = "phase2"
    /\ agent_results \in AggInputs
    /\ stub = FALSE

NextManager == ManagerStart \/ ManagerFinish \/ Return

SpecManager == InitManager /\ [][NextManager]_vars

(***************************************************************************)
(* One run under the event loop's scheduling: a coroutine that can run is  *)
(* run.  Nothing makes a call to the service complete: there is no timeout.*)
(***************************************************************************)
InitLive ==
    /\ InitCommon
    /\ NoFront
    /\ frontend \in {"bot", "app"}
    /\ contract_text = Doc(MaxShort, 0)
    /\ opc = "start"
    /\ agent_results = NoDict
    /\ stub = FALSE

Scheduling ==
    /\ WF_vars(Launch)
    /\ \A k \in Keys : WF_vars(AnalyzeStart(k))
    /\ WF_vars(GatherDone)
    /\ WF_vars(AppPhase2)
    /\ WF_vars(ManagerStart)
    /\ WF_vars(Return)

SpecLive == InitLive /\ [][Next]_vars /\ Scheduling

(***************************************************************************)
(* The presentation layer: rendering one result.                           *)
(***************************************************************************)
Sections == <<"structure", "legal", "negotiation", "consolidated">>

\* The tokens that stand for one character each.
Chars == {Alphabet[i] : i \in 1..Len(Alphabet)} \cup {" ", "\n"}

ICON(sec) ==
    CASE sec = "structure"    -> "(construction icon)"
      [] sec = "legal"        -> "(scales icon)"
      [] sec = "negotiation"  -> "(handshake icon)"
      [] sec = "consolidated" -> "(necktie icon)"

\* len() of one token: an icon or the warning sign is one or two code points,
\* any other literal is as long as its text.
Width(tok) ==
    CASE tok \in Chars -> 1
      [] tok \in {WARNING, ICON("structure"), ICON("legal")} -> 2
      [] tok \in {ICON("negotiation"), ICON("consolidated")} -> 1
      [] OTHER -> Len(tok)

RECURSIVE SumWidth(_, _)
SumWidth(text, S) ==
    IF S = {} THEN 0
    ELSE LET i == CHOOSE j \in S : TRUE
         IN  Width(text[i]) + SumWidth(text, S \ {i})

\* len(text)
CharLen(text) ==
    LET wide == {i \in 1..Len(text) : text[i] \notin Chars}
    IN  (Len(text) - Cardinality(wide)) + SumWidth(text, wide)

\* not text.strip(): the text is empty or all whitespace.
StripIsEmpty(text) == \A i \in 1..Len(text) : text[i] \in {" ", "\n"}

\* text.strip()
Strip(text) ==
    LET ink == {i \in 1..Len(text) : text[i] \notin {" ", "\n"}}
    IN  IF ink = {} THEN <<>>
        ELSE SubSeq(text, CHOOSE i \in ink : \A j \in ink : i <= j,
                          CHOOSE i \in ink : \A j \in ink : i >= j)

\* The result a front-end renders under a section: agent_results.get(key, {})
\* / agent_results.get(key), and the manager's result.
SectionResult(sec) ==
    IF sec = "consolidated"
    THEN results["consolidated"]
    ELSE DictGet(results["agents"], sec, NoDict)

TITLE(sec) ==
    CASE sec = "structure"    -> "Structure Analysis"
      [] sec = "legal"        -> "Legal Analysis"
      [] sec = "negotiation"  -> "Negotiation Analysis"
      [] sec = "consolidated" -> "Executive Report"

TRUNCATED == <<"\n", "\n", "_...truncated for length_">>

NO_ANALYSIS == <<"No analysis available">>

\* f"{icon} *{title}*\n\n"
MessageHead(sec) == <<ICON(sec), " *", TITLE(sec), "*", "\n", "\n">>

\* Mutant: the content goes into the message at its full length.
FormatAgentResultUntruncated(sec, result) ==
    MessageHead(sec) \o DictGet(result, "content", NO_ANALYSIS)

\* format_agent_result: the message text of one result.  A content over
\* the limit is made of one-character tokens, so the slice is by characters.
FormatAgentResult(sec, result) ==
    LET content == DictGet(result, "content", NO_ANALYSIS)
    IN  MessageHead(sec) \o
            (IF CharLen(content) > TRUNCATE_AT
             THEN Slice(content, TRUNCATE_AT) \o TRUNCATED
             ELSE content)

\* text.split("\n") from position from on.
RECURSIVE SplitFrom(_, _)
SplitFrom(text, from) ==
    LET later == {i \in from..Len(text) : text[i] = "\n"}
    IN  IF later = {}
        THEN <<SubSeq(text, from, Len(text))>>
        ELSE LET nxt == CHOOSE i \in later : \A j \in later : i <= j
             IN  <<SubSeq(text, from, nxt - 1)>> \o SplitFrom(text, nxt + 1)

\* send_long_message's loop over the lines: current_chunk and chunks.
RECURSIVE Pack(_, _, _)
Pack(lines, current, chunks) ==
    LET closed == IF current # <<>> THEN Append(chunks, Strip(current)) ELSE chunks
    IN  IF lines = <<>>
        THEN closed
        ELSE IF CharLen(current) + CharLen(Head(lines)) + 1 <= MAX_MESSAGE_LENGTH
             THEN Pack(Tail(lines), current \o Head(lines) \o <<"\n">>, chunks)
             ELSE Pack(Tail(lines), Head(lines) \o <<"\n">>, closed)

\* send_long_message: the texts it passes to reply_text, in order.
Messages(text) ==
    IF CharLen(text) <= MAX_MESSAGE_LENGTH
    THEN <<text>>
    ELSE Pack(SplitFrom(text, 1), <<>>, <<>>)

\* Telegram accepts a message text that is not empty and within its limit.
Sendable(text) == text # <<>> /\ CharLen(text) <= MAX_MESSAGE_LENGTH

\* How many of the messages can have gone out when the sending stops: all,
\* or those before a reply_text that raised.
Sent(msgs) == {j \in 0..Len(msgs) : \A i \in 1..j : Sendable(msgs[i])}

\* The path of format_agent_result: the content, or the default of its get.
FormatPath(result) == IF "content" \in DOMAIN result THEN "content" ELSE "default"

\* display_agent_result: which call shows the result, and the text it shows.
DisplayAgentResult(result) ==
    IF result # NoDict /\ "content" \in DOMAIN result
    THEN [path |-> "content", text |-> result["content"]]
    ELSE IF result # NoDict /\ "error" \in DOMAIN result
         THEN [path |-> "error", text |-> <<"Error: ">> \o result["error"]]
         ELSE [path |-> "warning", text |-> NO_ANALYSIS]

(***************************************************************************)
(* The front-ends' handlers of one uploaded document.                      *)
(***************************************************************************)
\* What the handler's own steps leave alone: the state of the pipeline.
core == <<frontend, run, tpc, tprompt, treply, tresult, agent_results,
          mpc, mprompt, mreply, manager_result, results, stub, stubMemo, previous, ncalls>>

\* The name and the declared type of an uploaded file.
FileKinds ==
    {[ext |-> "pdf",  type |-> "application/pdf"],
     [ext |-> "docx", type |-> "application/vnd.openxmlformats-officedocument.wordprocessingml.document"],
     [ext |-> "txt",  type |-> "text/plain"],
     [ext |-> "txt",  type |-> "application/pdf"]}

\* The texts a readable file holds: blank, or a short document.
UploadTexts == {<<" ">>} \cup {Doc(n, 0) : n \in 1..MaxShort}

\* The uploaded files: a file the reader can parse, with its text, or not.
Uploads ==
    [kind : FileKinds, parses : {TRUE}, text : UploadTexts]
        \cup [kind : FileKinds, parses : {FALSE}, text : {<<>>}]

\* file_name.endswith(".pdf") or file_name.endswith(".docx")
BotSupported(u) == u.kind.ext \in {"pdf", "docx"}

\* extract_text_from_file: the two branches that do not raise ValueError.
AppSupported(u) ==
    \/ u.kind.ext = "pdf" \/ u.kind.type = "application/pdf"
    \/ u.kind.ext = "docx"
    \/ u.kind.type = "application/vnd.openxmlformats-officedocument.wordprocessingml.document"

\* Mutant: the handler goes on after an extraction error.
OnExtractErrorContinue(fe) == IF fe = "app" THEN "preview" ELSE "announce"

\* Where the handler is after an extraction error: the web app has shown
\* the error and stopped the script, the bot is in its except clause.
OnExtractError(fe) == IF fe = "app" THEN "stopped" ELSE "except"

\* The section shown after this one.
After(sec) ==
    CASE sec = "structure"    -> "legal"
      [] sec = "legal"        -> "negotiation"
      [] sec = "negotiation"  -> IF frontend = "bot" THEN "separator" ELSE "consolidated"
      [] sec = "consolidated" -> IF frontend = "bot" THEN "done" ELSE "export"

InitFront ==
    /\ InitCommon
    /\ frontend \in {"bot", "app"}
    /\ upload \in Uploads
    /\ contract_text = <<>>
    /\ opc = "idle"
    /\ agent_results = NoDict
    /\ stub = FALSE
    /\ fpc = "received"
    /\ status_msg = "none"
    /\ blocks = <<>>
    /\ notice = "none"
    /\ fault = "none"
    /\ escaped = FALSE

\* A step inside the try block raises: control goes to the except clause.
Raise(step) ==
    /\ fault' = step
    /\ fpc' = "except"
    /\ UNCHANGED <<contract_text, opc, upload, status_msg, blocks, notice, escaped>>

\* document_handler: a file that is neither .pdf nor .docx is turned down.
\* The reply is sent outside any try block.
BotReject ==
    /\ frontend = "bot"
    /\ fpc = "received"
    /\ ~BotSupported(upload)
    /\ fpc' = "done"
    /\ \E ok \in BOOLEAN :
          IF ok
          THEN notice' = "unsupported" /\ UNCHANGED <<fault, escaped>>
          ELSE fault' = "reject" /\ escaped' = TRUE /\ notice' = notice
    /\ UNCHANGED <<contract_text, opc, upload, status_msg, blocks>>
    /\ UNCHANGED core

\* document_handler: the status message is created, before the try block.
BotStatus ==
    /\ frontend = "bot"
    /\ fpc = "received"
    /\ BotSupported(upload)
    /\ \E ok \in BOOLEAN :
          IF ok
          THEN /\ status_msg' = "shown"
               /\ fpc' = "download"
               /\ UNCHANGED <<fault, escaped>>
          ELSE /\ fault' = "status"
               /\ escaped' = TRUE
               /\ fpc' = "done"
               /\ status_msg' = status_msg
    /\ UNCHANGED <<contract_text, opc, upload, blocks, notice>>
    /\ UNCHANGED core

\* get_file, download_as_bytearray, and the status edited to "Extracting".
BotDownload ==
    /\ frontend = "bot"
    /\ fpc = "download"
    /\ \E f \in {"none", "download", "progress"} :
          IF f = "none"
          THEN /\ fpc' = "extract"
               /\ UNCHANGED <<contract_text, opc, upload, status_msg, blocks, notice,
                              fault, escaped>>
          ELSE Raise(f)
    /\ UNCHANGED core

\* extract_text_from_pdf / extract_text_from_docx, then the check for a blank
\* text, which edits the status and returns.
BotExtract ==
    /\ frontend = "bot"
    /\ fpc = "extract"
    /\ IF ~upload.parses
       THEN /\ fault' = "extract"
            /\ fpc' = OnExtractError(frontend)
            /\ UNCHANGED <<contract_text, opc, upload, status_msg, blocks, notice, escaped>>
       ELSE IF StripIsEmpty(upload.text)
            THEN \E ok \in BOOLEAN :
                    IF ok
                    THEN /\ contract_text' = upload.text
                         /\ notice' = "empty"
                         /\ fpc' = "done"
                         /\ UNCHANGED <<opc, upload, status_msg, blocks, fault, escaped>>
                    ELSE /\ contract_text' = upload.text
                         /\ fault' = "progress"
                         /\ fpc' = "except"
                         /\ UNCHANGED <<opc, upload, status_msg, blocks, notice, escaped>>
            ELSE /\ contract_text' = upload.text
                 /\ fpc' = "announce"
                 /\ UNCHANGED <<opc, upload, status_msg, blocks, notice, fault, escaped>>
    /\ UNCHANGED core

\* The status is edited to "Running multi-agent analysis".
BotAnnounce ==
    /\ frontend = "bot"
    /\ fpc = "announce"
    /\ \E ok \in BOOLEAN :
          IF ok
          THEN /\ fpc' = "call"
               /\ UNCHANGED <<contract_text, opc, upload, status_msg, blocks, notice,
                              fault, escaped>>
          ELSE Raise("progress")
    /\ UNCHANGED core

\* results = await run_agents(contract_text): the call.  The constructors of
\* the agents run first and can raise.
BotRunAgents ==
    /\ frontend = "bot"
    /\ fpc = "call"
    /\ \E ok \in BOOLEAN :
          IF ok
          THEN /\ opc' = "start"
               /\ fpc' = "running"
               /\ UNCHANGED <<contract_text, upload, status_msg, blocks, notice,
                              fault, escaped>>
          ELSE Raise("run_agents")
    /\ UNCHANGED core

\* run_agents is over: its exception goes to the except clause; after its
\* return the status message is deleted.
BotDelete ==
    /\ frontend = "bot"
    /\ fpc = "running"
    /\ opc \in {"returned", "raised"}
    /\ IF opc = "raised"
       THEN Raise("run_agents")
       ELSE \E ok \in BOOLEAN :
               IF ok
               THEN /\ status_msg' = "deleted"
                    /\ fpc' = "header"
                    /\ UNCHANGED <<contract_text, opc, upload, blocks, notice, fault, escaped>>
               ELSE Raise("delete")
    /\ UNCHANGED core

\* The completion header is sent.
BotHeader ==
    /\ frontend = "bot"
    /\ fpc = "header"
    /\ \E ok \in BOOLEAN :
          IF ok
          THEN /\ blocks' = Append(blocks, [section |-> "header", path |-> "literal",
                                            text |-> <<"Analysis Complete!">>])
               /\ fpc' = "structure"
               /\ UNCHANGED <<contract_text, opc, upload, status_msg, notice, fault, escaped>>
          ELSE Raise("header")
    /\ UNCHANGED core

\* send_results: one result is formatted and sent with send_long_message.
BotSendSection(sec) ==
    /\ frontend = "bot"
    /\ fpc = sec
    /\ LET result == SectionResult(sec)
           msgs == Messages(FormatAgentResult(sec, result))
       IN  \E j \in Sent(msgs) :
              /\ blocks' = blocks \o [i \in 1..j |->
                                         [section |-> sec, path |-> FormatPath(result),
                                          text |-> msgs[i]]]
              /\ IF j = Len(msgs)
                 THEN fpc' = After(sec) /\ fault' = fault
                 ELSE fpc' = "except" /\ fault' = "send_results"
    /\ UNCHANGED <<contract_text, opc, upload, status_msg, notice, escaped>>
    /\ UNCHANGED core

\* send_results: the separator line before the consolidated report.
BotSeparator ==
    /\ frontend = "bot"
    /\ fpc = "separator"
    /\ \E ok \in BOOLEAN :
          IF ok
          THEN /\ blocks' = Append(blocks, [section |-> "separator", path |-> "literal",
                                            text |-> <<"(30 box-drawing dashes)">>])
               /\ fpc' = "consolidated"
               /\ UNCHANGED <<contract_text, opc, upload, status_msg, notice, fault, escaped>>
          ELSE Raise("send_results")
    /\ UNCHANGED core

\* except Exception: the error is written into the status message.  Telegram
\* refuses to edit a message that has been deleted: edit_text raises, and
\* nothing is around it.  An edit of a message that exists goes through.
BotExcept ==
    /\ frontend = "bot"
    /\ fpc = "except"
    /\ fpc' = "done"
    /\ IF status_msg = "shown"
       THEN notice' = "error" /\ escaped' = escaped
       ELSE notice' = notice /\ escaped' = TRUE
    /\ UNCHANGED <<contract_text, opc, upload, status_msg, blocks, fault>>
    /\ UNCHANGED core

\* main: extract_text_from_file in its try; either except clause shows the
\* error and stops the script.
AppExtract ==
    /\ frontend = "app"
    /\ fpc = "received"
    /\ IF ~AppSupported(upload) \/ ~upload.parses
       THEN /\ fault' = "extract"
            /\ notice' = "extract_error"
            /\ fpc' = OnExtractError(frontend)
            /\ contract_text' = contract_text
       ELSE /\ contract_text' = upload.text
            /\ fpc' = "preview"
            /\ UNCHANGED <<notice, fault>>
    /\ UNCHANGED <<opc, upload, status_msg, blocks, escaped>>
    /\ UNCHANGED core

\* The Analyze button: asyncio.run(run_parallel_analysis(contract_text)) is
\* called in the try block.  The constructors of the agents can raise.
AppClick ==
    /\ frontend = "app"
    /\ fpc = "preview"
    /\ \E ok \in BOOLEAN :
          IF ok
          THEN /\ opc' = "start"
               /\ fpc' = "running"
               /\ UNCHANGED <<contract_text, upload, status_msg, blocks, notice,
                              fault, escaped>>
          ELSE Raise("analysis")
    /\ UNCHANGED core

\* Both asyncio.run calls are over: an exception goes to the except clause,
\* after the returns the results heading is written.
AppShow ==
    /\ frontend = "app"
    /\ fpc = "running"
    /\ opc \in {"returned", "raised"}
    /\ IF opc = "raised"
       THEN Raise("analysis")
       ELSE \E ok \in BOOLEAN :
               IF ok
               THEN /\ fpc' = "structure"
                    /\ UNCHANGED <<contract_text, opc, upload, status_msg, blocks, notice,
                                   fault, escaped>>
               ELSE Raise("display")
    /\ UNCHANGED core

\* display_agent_result for one section.
AppDisplay(sec) ==
    /\ frontend = "app"
    /\ fpc = sec
    /\ \E ok \in BOOLEAN :
          IF ok
          THEN /\ blocks' = Append(blocks,
                                   [section |-> sec,
                                    path |-> DisplayAgentResult(SectionResult(sec)).path,
                                    text |-> DisplayAgentResult(SectionResult(sec)).text])
               /\ fpc' = After(sec)
               /\ UNCHANGED <<contract_text, opc, upload, status_msg, notice, fault, escaped>>
          ELSE Raise("display")
    /\ UNCHANGED core

\* The success message and the JSON export.
AppExport ==
    /\ frontend = "app"
    /\ fpc = "export"
    /\ \E ok \in BOOLEAN :
          IF ok
          THEN /\ fpc' = "done"
               /\ UNCHANGED <<contract_text, opc, upload, status_msg, blocks, notice,
                              fault, escaped>>
          ELSE Raise("export")
    /\ UNCHANGED core

\* except Exception of the analysis block: st.error and st.exception.
AppExcept ==
    /\ frontend = "app"
    /\ fpc = "except"
    /\ fpc' = "done"
    /\ notice' = "error"
    /\ UNCHANGED <<contract_text, opc, upload, status_msg, blocks, fault, escaped>>
    /\ UNCHANGED core

NextFront ==
    \/ Next
    \/ BotReject
    \/ BotStatus
    \/ BotDownload
    \/ BotExtract
    \/ BotAnnounce
    \/ BotRunAgents
    \/ BotDelete
    \/ BotHeader
    \/ \E sec \in {Sections[i] : i \in 1..Len(Sections)} : BotSendSection(sec)
    \/ BotSeparator
    \/ BotExcept
    \/ AppExtract
    \/ AppClick
    \/ AppShow
    \/ \E sec \in {Sections[i] : i \in 1..Len(Sections)} : AppDisplay(sec)
    \/ AppExport
    \/ AppExcept

SpecFront == InitFront /\ [][NextFront]_vars

(***************************************************************************)
(* Properties.                                                             *)
(***************************************************************************)
\* The position of the token tok in the text p.
IndexOf(p, tok) == CHOOSE i \in 1..Len(p) : p[i] = tok

\* analyze of task k has returned a result record.
Terminal(k) ==
    /\ tpc[k] = "done"
    /\ {"agent", "analysis_type", "content"} \subseteq DOMAIN tresult[k]

\* C1: ManagerAgent.analyze is not started (in the bot and in the web app)
\* until each of the three phase-1 tasks has returned a result, a success or
\* a converted failure.
C1_ManagerAfterPhase1 ==
    mpc # "idle" => \A k \in Keys : Terminal(k)

\* The web app's manager is running after a phase 1 in which the legal task's
\* call failed and the structure task's call succeeded.
C1_Witness ==
    /\ mpc = "awaiting"
    /\ frontend = "app"
    /\ "error" \in DOMAIN tresult["legal"]
    /\ "error" \notin DOMAIN tresult["structure"]

\* The call of task k has completed and delivered an outcome of this kind.
Delivered(k, kind) == tpc[k] \in {"done", "raised"} /\ treply[k].kind = kind

\* The dict a success with this response is documented to return.
SuccessDict(k, response) ==
    [agent |-> AgentName(k), analysis_type |-> AnalysisType(k),
     content |-> response.content, run_id |-> response.run_id]

\* The text t ends with the text m.
EndsWith(t, m) ==
    /\ Len(t) >= Len(m)
    /\ SubSeq(t, Len(t) - Len(m) + 1, Len(t)) = m

\* C2: when the call of exactly one phase-1 agent raises and the other two
\* return, the run does not end with an exception, the report it returns has
\* a content, the failing agent's aggregated entry has its error set, and the
\* other two entries are the success results of their own responses.
C2_OneFailureIsolated ==
    \A f \in Keys :
        (Delivered(f, "raise") /\ \A j \in Keys \ {f} : Delivered(j, "ok"))
        => /\ opc # "raised"
           /\ opc = "returned" =>
                /\ "content" \in DOMAIN results.consolidated
                /\ "error" \in DOMAIN results.agents[f]
                /\ \A j \in Keys \ {f} : results.agents[j] = SuccessDict(j, treply[j])

\* The bot's run has returned after the legal call raised TimeoutError and
\* the two other calls returned.
C2_Witness ==
    /\ opc = "returned"
    /\ frontend = "bot"
    /\ Delivered("legal", "raise")
    /\ Delivered("structure", "ok")
    /\ Delivered("negotiation", "ok")
    /\ "error" \notin DOMAIN results.consolidated

\* C3: a phase-1 analyze never ends with an exception: whatever its call
\* delivers (a response, an exception, a malformed response), the task ends
\* by returning a result record.
C3_AnalyzeNeverRaises ==
    \A k \in Keys :
        /\ tpc[k] # "raised"
        /\ tpc[k] \in {"done", "raised"} => Terminal(k)

\* The three tasks have ended, one on each kind of outcome.
C3_Witness ==
    /\ Delivered("structure", "malformed")
    /\ Delivered("legal", "raise")
    /\ Delivered("negotiation", "ok")

\* C4: when the call of a phase-1 agent raises with message m, the result has
\* error = m, a content that starts with the warning marker and ends with m,
\* and the agent and analysis_type of that agent.
C4_FailureResult ==
    \A k \in Keys :
        Delivered(k, "raise") =>
            /\ tpc[k] = "done"
            /\ "error" \in DOMAIN tresult[k]
            /\ tresult[k].error = treply[k].msg
            /\ Len(tresult[k].content) > Len(treply[k].msg)
            /\ Head(tresult[k].content) = WARNING
            /\ EndsWith(tresult[k].content, treply[k].msg)
            /\ tresult[k].agent = AgentName(k)
            /\ tresult[k].analysis_type = AnalysisType(k)

\* The negotiation agent has returned after its call raised TimeoutError.
C4_Witness ==
    /\ Delivered("negotiation", "raise")
    /\ tresult["negotiation"].error = <<"TimeoutError">>

\* C5: when the call of a phase-1 agent returns a response with text t, the
\* result's content is t and the result has no error field.
C5_SuccessResult ==
    \A k \in Keys :
        Delivered(k, "ok") =>
            /\ tpc[k] = "done"
            /\ tresult[k].content = treply[k].content
            /\ "error" \notin DOMAIN tresult[k]

\* The structure agent has returned the text "stub-ok" and the legal agent
\* an empty text.
C5_Witness ==
    /\ Delivered("structure", "ok")
    /\ tresult["structure"].content = <<"stub-ok">>
    /\ Delivered("legal", "ok")
    /\ tresult["legal"].content = <<>>

\* The text the manager's prompt p embeds for section k: what stands between
\* the section's header and the next literal of the template.
PromptSection(p, k) ==
    CASE k = "structure"   -> SubSeq(p, 2, IndexOf(p, MLegal) - 1)
      [] k = "legal"       -> SubSeq(p, IndexOf(p, MLegal) + 1, IndexOf(p, MNegotiation) - 1)
      [] k = "negotiation" -> SubSeq(p, IndexOf(p, MNegotiation) + 1, Len(p) - 1)

\* C6: for a mapping from which keys are absent, the text the manager's
\* prompt embeds for each absent section is that section's placeholder, and
\* so neither empty nor None.
C6_AbsentKeyPlaceholder ==
    mpc # "idle" =>
        \A k \in Keys \ DOMAIN agent_results :
            /\ PromptSection(mprompt, k) = <<Placeholder(k)>>
            /\ PromptSection(mprompt, k) # <<>>
            /\ PromptSection(mprompt, k) # <<None>>

\* The manager has built its prompt from a mapping with the legal entry only.
C6_Witness ==
    /\ mpc = "awaiting"
    /\ DOMAIN agent_results = {"legal"}
    /\ PromptSection(mprompt, "structure") = <<"No structural analysis available">>
    /\ PromptSection(mprompt, "negotiation") = <<"No negotiation analysis available">>

\* The entry e has no content: the field is missing, or it is empty.
NoContent(e) == "content" \notin DOMAIN e \/ e.content = <<>>

\* C7 as claimed: an entry that is present but has no content (field missing
\* or empty) gets the placeholder in the prompt, as an absent entry does.
C7_NoContentPlaceholder ==
    mpc # "idle" =>
        \A k \in DOMAIN agent_results :
            NoContent(agent_results[k]) => PromptSection(mprompt, k) = <<Placeholder(k)>>

\* C7 as amended: an entry that is present without a content field gets the
\* placeholder in the prompt, as an absent entry does; an entry whose content
\* field is present has that content embedded as it is, also when it is empty.
C7_MissingContentPlaceholder ==
    mpc # "idle" =>
        \A k \in DOMAIN agent_results :
            PromptSection(mprompt, k) =
                IF "content" \in DOMAIN agent_results[k]
                THEN agent_results[k].content
                ELSE <<Placeholder(k)>>

\* The manager has built its prompt from a mapping whose structure entry has
\* no content field and whose legal entry has an empty content.
C7_Witness ==
    /\ mpc = "awaiting"
    /\ Keys \subseteq DOMAIN agent_results
    /\ "content" \notin DOMAIN agent_results["structure"]
    /\ "content" \in DOMAIN agent_results["legal"]
    /\ agent_results["legal"].content = <<>>
    /\ PromptSection(mprompt, "structure") = <<"No structural analysis available">>
    /\ PromptSection(mprompt, "legal") = <<>>

\* C8: ManagerAgent.analyze never ends with an exception, whatever mapping it
\* is given and whatever its call delivers: it returns a dict of the Manager
\* Agent, and after a failure that dict has its error set and a content that
\* is the failure notice.
C8_ManagerFailSoft ==
    /\ mpc # "raised"
    /\ opc # "raised"
    /\ mpc = "done" =>
        /\ {"agent", "analysis_type", "content"} \subseteq DOMAIN manager_result
        /\ manager_result.agent = "Manager Agent"
        /\ mreply.kind # "ok" =>
            /\ "error" \in DOMAIN manager_result
            /\ manager_result.error # <<>>
            /\ Head(manager_result.content) = WARNING
            /\ EndsWith(manager_result.content, manager_result.error)

\* The manager has returned a failure report for a mapping with an absent
\* entry and an entry without content, after a malformed response.
C8_Witness ==
    /\ mpc = "done"
    /\ mreply.kind = "malformed"
    /\ "structure" \notin DOMAIN agent_results
    /\ "legal" \in DOMAIN agent_results
    /\ "content" \notin DOMAIN agent_results["legal"]
    /\ "error" \in DOMAIN manager_result

\* The text e is a prefix of the text t.
IsPrefix(e, t) == Len(e) <= Len(t) /\ SubSeq(t, 1, Len(e)) = e

\* The excerpt the prompt of phase-1 agent k embeds: what stands between the
\* two literals of the template.
EmbeddedExcerpt(k) == SubSeq(tprompt[k], 2, Len(tprompt[k]) - 1)

\* C9: the excerpt a phase-1 agent's prompt embeds is the prefix of the
\* document of length min(len(text), 8000): for a longer text, its first
\* 8000 characters and nothing of the rest.
C9_PromptTruncation ==
    \A k \in Keys :
        tpc[k] \in {"awaiting", "done"} =>
            /\ Head(tprompt[k]) = PromptHead(k)
            /\ tprompt[k][Len(tprompt[k])] = PromptTail(k)
            /\ LET e == EmbeddedExcerpt(k)
                    n == Min(Len(contract_text), 8000)
               IN  /\ Len(e) = n
                   /\ IsPrefix(e, contract_text)

\* The three prompts are out for a document of more than 8000 characters.
C9_Witness ==
    /\ \A k \in Keys : tpc[k] = "awaiting"
    /\ Len(contract_text) > 8000
    /\ Len(EmbeddedExcerpt("legal")) = 8000

\* C10: against a service that answers equal requests equally, a further run
\* on the same document returns a report with the content of the previous
\* run's report, and aggregated entries with the contents of the previous
\* run's entries, whatever the order in which the tasks of either run end.
C10_RunsAgree ==
    (stub /\ run > 1 /\ opc = "returned") =>
        /\ results.consolidated.content = previous.consolidated.content
        /\ \A k \in Keys : results.agents[k].content = previous.agents[k].content

\* The second run has returned, after a first run in which the structure call
\* returned a text, the legal call raised and the manager's call returned.
C10_Witness ==
    /\ stub
    /\ run = 2
    /\ opc = "returned"
    /\ previous.agents["structure"].content = <<"stub-ok">>
    /\ "error" \in DOMAIN previous.agents["legal"]
    /\ previous.consolidated.content = <<"stub-ok">>
    /\ results.consolidated.content = <<"stub-ok">>

\* C14: once the fan-in is done the aggregated mapping has the keys
\* structure, legal and negotiation, and each key holds the dict the task of
\* that kind returned, whatever the outcomes and the order of the calls.
C14_EachKeyHoldsItsOwnResult ==
    opc \in {"phase1_returned", "phase2", "returned"} =>
        /\ DOMAIN agent_results = {"structure", "legal", "negotiation"}
        /\ \A k \in Keys :
              /\ agent_results[k] = tresult[k]
              /\ agent_results[k].agent = AgentName(k)
              /\ agent_results[k].analysis_type = AnalysisType(k)

\* The mapping is built after the structure call failed and the two other
\* calls returned.
C14_Witness ==
    /\ opc = "phase2"
    /\ "error" \in DOMAIN agent_results["structure"]
    /\ "error" \notin DOMAIN agent_results["legal"]
    /\ "error" \notin DOMAIN agent_results["negotiation"]

\* C15: when all three entries have a content, the manager's prompt is the
\* template with the three contents in the order structure, legal,
\* negotiation, each whole, however long; for a failed agent that content is
\* its failure notice.
C15_PromptEmbedsContentsInFull ==
    (mpc # "idle" /\ \A k \in Keys : k \in DOMAIN agent_results
                                       /\ "content" \in DOMAIN agent_results[k]) =>
        mprompt = <<MHead>> \o agent_results["structure"].content
                    \o <<MLegal>> \o agent_results["legal"].content
                    \o <<MNegotiation>> \o agent_results["negotiation"].content
                    \o <<MTail>>

\* The manager has sent a prompt that embeds a legal content longer than
\* 8000 characters and the failure notice of the structure agent.
C15_Witness ==
    /\ mpc = "awaiting"
    /\ Keys \subseteq DOMAIN agent_results
    /\ "error" \in DOMAIN agent_results["structure"]
    /\ "content" \in DOMAIN agent_results["legal"]
    /\ Len(agent_results["legal"].content) > 8000
    /\ "content" \in DOMAIN agent_results["negotiation"]
    /\ Len(mprompt) > 8000
    /\ mprompt[2] = WARNING

\* C16: the aggregated mapping is written once, at the fan-in, with its three
\* keys, and no step changes it afterwards; what the run returns as the
\* aggregated results is that mapping, the dicts the three tasks returned.
C16_AggregatedWriteOnce ==
    [][/\ agent_results' # agent_results =>
            /\ opc = "gather"
            /\ agent_results = NoDict
            /\ DOMAIN agent_results' = Keys
       /\ opc' = "returned" =>
            /\ results'.agents = agent_results'
            /\ results'.agents = [k \in Keys |-> tresult'[k]]]_vars

\* The run has returned the mapping, after the manager read it and failed.
C16_Witness ==
    /\ opc = "returned"
    /\ results.agents = agent_results
    /\ "error" \in DOMAIN results.consolidated
    /\ "error" \in DOMAIN results.agents["legal"]

\* C17: in a run every agent calls the service at most once, a task that has
\* started has called exactly once whatever its call delivered, the manager
\* calls only after each phase-1 agent has called once, and a run that has
\* returned has made exactly one call per agent.
C17_OneCallPerAgent ==
    /\ \A a \in Agents : ncalls[a] <= 1
    /\ \A k \in Keys : tpc[k] \in {"awaiting", "done", "raised"} => ncalls[k] = 1
    /\ mpc # "idle" => \A a \in Agents : ncalls[a] = 1
    /\ opc = "returned" => \A a \in Agents : ncalls[a] = 1

\* The run has returned after all three phase-1 calls failed.
C17_Witness ==
    /\ opc = "returned"
    /\ \A k \in Keys : Delivered(k, "raise") \/ Delivered(k, "malformed")
    /\ ncalls["manager"] = 1

\* Every call to the generation service that is made returns or raises.
CallsComplete ==
    /\ \A k \in Keys : (tpc[k] = "awaiting") ~> (tpc[k] # "awaiting")
    /\ (mpc = "awaiting") ~> (mpc # "awaiting")

\* C18: if every call that is made returns or raises, the run completes
\* phase 1, then invokes the manager, then returns the aggregated results and
\* the consolidated report; and if the call of a phase-1 task never
\* completes, the manager is never invoked.
C18_RunCompletesIffCallsDo ==
    /\ CallsComplete =>
          /\ <>(\A k \in Keys : tpc[k] = "done")
          /\ <>(mpc # "idle")
          /\ <>(opc = "returned" /\ DOMAIN results = {"agents", "consolidated"})
    /\ \A k \in Keys : [](tpc[k] # "done") => [](mpc = "idle")

\* The web app's run has returned both results after the negotiation call
\* raised.
C18_Witness ==
    /\ opc = "returned"
    /\ frontend = "app"
    /\ DOMAIN results = {"agents", "consolidated"}
    /\ Delivered("negotiation", "raise")

\* No analyze has been invoked in this request, and none is under way.
NoAnalysis ==
    /\ \A a \in Agents : ncalls[a] = 0
    /\ tpc = NoTask
    /\ mpc = "idle"
    /\ opc = "idle"

\* The front-end finds the type of the uploaded file unsupported.
Unsupported ==
    IF frontend = "bot" THEN ~BotSupported(upload) ELSE ~AppSupported(upload)

\* C11: once the text extraction of an uploaded document has failed (the
\* extractor has raised, or the file type is unsupported), no phase-1 analyze
\* and no ManagerAgent.analyze is invoked in that request, in the web app and
\* in the bot alike.
C11_NoAnalysisAfterExtractionFailure ==
    /\ frontend \in {"bot", "app"}
    /\ (fault = "extract" \/ (Unsupported /\ fpc # "received")) => NoAnalysis

C11_Witness ==
    /\ fault = "extract"
    /\ ~upload.parses
    /\ fpc \in {"done", "stopped"}
    /\ notice \in {"error", "extract_error"}

\* The steps of the bot's handler after the status message is created, and
\* of the web app's handler, whose exceptions the handler has a clause for.
GuardedSteps ==
    {"download", "progress", "extract", "run_agents", "delete", "header",
     "send_results", "analysis", "display", "export"}

\* C12: an exception raised at any step of the bot's document_handler after
\* the status message is created, or at any step of the web app's analysis
\* block, is caught: no exception leaves the handler, and when the handler is
\* over a failure message has been shown to the user.
C12_EveryFailureCaught ==
    fault \in GuardedSteps =>
        /\ ~escaped
        /\ fpc \in {"done", "stopped"} => notice \in {"error", "extract_error"}

\* The sections of the text blocks shown so far, in order, the completion
\* header and the separator line left out.
ShownSections ==
    LET shown == SelectSeq(blocks, LAMBDA b : b.section \notin {"header", "separator"})
    IN  [i \in 1..Len(shown) |-> shown[i].section]

\* The result of this section is degraded: its error is set.
Degraded(sec) == "error" \in DOMAIN SectionResult(sec)

\* C13: a run in which any of the four workers fail still returns, and the
\* front-end shows exactly one text block for each of structure, legal,
\* negotiation and consolidated, in that order; every block is rendered
\* through the content path, and the content of a degraded result begins with
\* the warning marker and is shown in full.
C13_FourSectionReport ==
    /\ opc # "raised"
    /\ (opc = "returned" /\ fault = "none" /\ fpc \in {"export", "done"}) =>
          /\ ShownSections = Sections
          /\ \A i \in 1..Len(blocks) :
                blocks[i].section \notin {"header", "separator"} =>
                   /\ blocks[i].path = "content"
                   /\ Degraded(blocks[i].section) =>
                         /\ SectionResult(blocks[i].section)["content"][1] = WARNING
                         /\ EndsWith(blocks[i].text,
                                     SectionResult(blocks[i].section)["content"])

C13_Witness ==
    /\ frontend = "bot"
    /\ fpc = "done"
    /\ fault = "none"
    /\ ShownSections = Sections
    /\ \A sec \in {"structure", "legal", "negotiation", "consolidated"} : Degraded(sec)


====
